---- MODULE Spec2Model ----
(***************************************************************************)
(* Model of FileUploadProvider (src/src/types/file-upload.ts): the upload  *)
(* queue and lifecycle manager of react-s3-upload.                         *)
(*                                                                         *)
(* State is React state (fileUploads, errors, activeUploads), the two refs *)
(* (abortControllersRef, fileRefs) and the asynchronous work in flight:    *)
(* addFiles / retryUpload calls suspended at an await, uploadSingleFile    *)
(* invocations suspended at uploadLib.uploadFile, and duplicateAlert       *)
(* timers.  Every handler continuation (the code between two awaits) is    *)
(* one action; the render that follows it and the upload-queue effect run  *)
(* in the same step (Commit).  A callback closes over the fileUploads of   *)
(* the render that created it: a call keeps that map's keys in `snap`.     *)
(*                                                                         *)
(* Environment: the user always calls the callbacks of the latest render;  *)
(* uploadLib is the injected interface (config.uploadLib, lines 182-194;   *)
(* the default implementation is lib/upload, src/unnamed/part_005):        *)
(* calculateSHA256 and requestBatchSignedUrls resolve or reject at any     *)
(* later time, uploadFile resolves, rejects or rejects with duplicate_file *)
(* at any later time, and a cancelled uploadFile rejects at some later     *)
(* time.  requestBatchSignedUrls hands over the array the server sent      *)
(* (part_005, 266-276): a URL is identified by the hash it was signed for. *)
(***************************************************************************)
EXTENDS Integers, Sequences, FiniteSets, TLC

\* ------------------------------------------------------------- bounds
NumHashes == 4      \* distinct content hashes the environment can produce
MaxCalls == 2       \* addFiles / retryUpload calls suspended at the same time
MaxAdds == 2        \* addFiles calls of one run
MaxRetries == 1     \* retryUpload calls of one run
MaxRemoves == 1     \* removeFile calls of one run
MaxRemoveAlls == 1  \* removeAll calls of one run
MaxAddErrors == 1   \* addErrors calls of one run
MaxClearErrors == 1 \* clearErrors calls of one run
SmallHashes == 2    \* hashes of the files at hand in Spec
SmallBatch == 2     \* longest addFiles input in Spec
SmallCap == 2       \* largest maxFiles configured in Spec
QueueCap == 4       \* maxFiles configured in SpecQueue

\* ------------------------------------------------- program constants
maxConcurrency == 3

Hashes == 1..NumHashes

\* The File objects the user has: File h, for h in Hashes, has the content with
\* hash h, and File NumHashes + h is another File with the same content.
Files == 1..(2 * NumHashes)

\* what uploadLib.calculateSHA256(file) resolves to
calculateSHA256(file) == ((file - 1) % NumHashes) + 1
None == 0

VARIABLES
  maxFiles,          \* mergedConfig.maxFiles
  fileUploads,       \* Map<string, FileUpload> in insertion order
  errors,            \* UploadError[] (the type of each entry)
  activeUploads,     \* Set<string>
  abortControllers,  \* abortControllersRef: sha256 -> controller (transfer id), None if absent
  fileRefs,          \* fileRefs: the hashes that have a File stored
  transfers,         \* uploadSingleFile invocations awaiting uploadLib.uploadFile
  calls,             \* addFiles / retryUpload invocations suspended at an await: the keys
                     \* of the closure's fileUploads (snap), the files still to hash
                     \* (todo), fileRequests (reqs: the hashes, previews: their
                     \* preview URLs), the names in processingErrors (failed), the
                     \* requestBatchSignedUrls invocations made (sent) and, for a
                     \* retry, the status of the closure's fileUpload
  alertTimers,       \* hashes with a pending handleDuplicateFile timeout
  inputs,            \* the file lists the user has at hand for addFiles
  budget,            \* external calls the user still makes, per operation
  images,            \* the files whose type starts with "image/"
  objectURLs,        \* objectURLs[u]: the revokeObjectURL calls made for the u-th
                     \* URL that URL.createObjectURL returned
  callbacks,         \* config has onUploadComplete, onUploadError and onFilesChange
  invoked,           \* the calls of those callbacks that the last step made
  signedUrlHeaders,  \* config.signedUrlHeaders: the caller's headers, in the order
                     \* of Object.entries
  csrfToken,         \* the value of the XSRF-TOKEN cookie, NoValue if there is none
  requestHeaders,    \* the Headers object of the negotiation request last built
  response,          \* what the server or the storage endpoint answers a request
                     \* of the upload library with
  thrown,            \* what the upload library's call has returned or thrown
  refFiles           \* refFiles[h]: the File that fileRefs holds for hash h; None
                     \* if it holds none

vars == <<maxFiles, fileUploads, errors, activeUploads, abortControllers,
          fileRefs, transfers, calls, alertTimers, inputs, budget, images,
          objectURLs, callbacks, invoked, signedUrlHeaders, csrfToken,
          requestHeaders, response, thrown, refFiles>>

\* the configuration besides maxFiles, and the upload library's requests and
\* answers, which no operation of the provider changes
options == <<callbacks, signedUrlHeaders, csrfToken, requestHeaders, response,
             thrown>>

\* ---------------------------------------------------- Map helpers
Keys(fs) == {fs[i].sha256 : i \in 1..Len(fs)}

Has(fs, h) == h \in Keys(fs)

Get(fs, h) == fs[CHOOSE i \in 1..Len(fs) : fs[i].sha256 = h]

\* Map.set: an existing key keeps its position, a new key goes last
MapSet(fs, rec) ==
  IF Has(fs, rec.sha256)
    THEN [i \in 1..Len(fs) |-> IF fs[i].sha256 = rec.sha256 THEN rec ELSE fs[i]]
    ELSE Append(fs, rec)

MapDelete(fs, h) == SelectSeq(fs, LAMBDA r : r.sha256 # h)

Merge(existing, updates) ==
  [k \in DOMAIN existing |-> IF k \in DOMAIN updates THEN updates[k] ELSE existing[k]]

updateFileUpload(fs, h, updates) ==
  [i \in 1..Len(fs) |-> IF fs[i].sha256 = h THEN Merge(fs[i], updates) ELSE fs[i]]

\* the FileUpload object sendFileRequest builds
NewFileUpload(h, url, preview) ==
  [sha256 |-> h, url |-> url, status |-> "pending", progress |-> 0,
   error |-> "none", preview |-> preview, duplicateAlert |-> "undefined"]

CountStatus(fs, s) == Cardinality({i \in 1..Len(fs) : fs[i].status = s})

\* mutant of Take: nothing is cut off
TakeAll(s, n) == s

Take(s, n) == IF n >= Len(s) THEN s ELSE SubSeq(s, 1, n)

\* ------------------------------------------------ upload queue effect
FreshId(ts) == CHOOSE n \in 1..(Cardinality(ts) + 1) : \A t \in ts : t.id # n

\* uploadSingleFile up to its await, for one record
uploadSingleFile(st, h) ==
  IF h \notin st.refs THEN st
  ELSE LET id == FreshId(st.transfers) IN
    [st EXCEPT !.ctrl = [@ EXCEPT ![h] = id],
               !.active = @ \cup {h},
               !.files = updateFileUpload(@, h, [status |-> "uploading"]),
               !.transfers = @ \cup {[id |-> id, sha256 |-> h, aborted |-> FALSE]}]

RECURSIVE ForEachUpload(_, _)
ForEachUpload(st, toUpload) ==
  IF toUpload = <<>> THEN st
  ELSE ForEachUpload(uploadSingleFile(st, Head(toUpload).sha256), Tail(toUpload))

\* mutant of SlotsAvailable: the slots are not reduced by the uploads in progress
SlotsAvailableIgnoringActive(active) == maxConcurrency

SlotsAvailable(active) == maxConcurrency - Cardinality(active)

PendingFiles(fs, active) ==
  SelectSeq(fs, LAMBDA f : f.status = "pending" /\ f.sha256 \notin active)

ProcessQueue(st) ==
  IF Cardinality(st.active) >= maxConcurrency THEN st
  ELSE ForEachUpload(st, Take(PendingFiles(st.files, st.active), SlotsAvailable(st.active)))

Store == [files |-> fileUploads, active |-> activeUploads, ctrl |-> abortControllers,
          refs |-> fileRefs, transfers |-> transfers]

\* the state after the handler's updates, the render and the queue effect
Commit(st) ==
  LET n == ProcessQueue(st) IN
    /\ fileUploads' = n.files
    /\ activeUploads' = n.active
    /\ abortControllers' = n.ctrl
    /\ fileRefs' = n.refs
    /\ transfers' = n.transfers

\* ------------------------------------------------------ request headers
NoValue == "none"

\* the header names at hand, as Headers keeps them (in lower case)
HeaderNames ==
  {"content-type", "accept", "x-requested-with", "x-xsrf-token", "authorization"}

\* new Headers()
NoHeaders == [n \in HeaderNames |-> NoValue]

\* a header name as the caller writes it: the name in lower case and the way
\* it is spelt ("accept", "Accept"); both spellings are keys of their own in
\* the caller's object
Spellings == {"lower", "Capitalised"}

HeaderKey(lower, spelling) == [lower |-> lower, spelling |-> spelling]

toLowerCase(key) == key.lower

\* headers.set(name, value): Headers holds one value per name, whatever the
\* spelling
HeadersSet(headers, key, value) ==
  [headers EXCEPT ![toLowerCase(key)] = value]

getCsrfToken == csrfToken

\* the names that the loop over the caller's headers skips
CriticalHeaders == {"content-type", "accept", "x-requested-with"}

\* for (const [key, value] of Object.entries(resolvedHeaders))
RECURSIVE ApplyCustomHeaders(_, _)
ApplyCustomHeaders(headers, entries) ==
  IF entries = <<>> THEN headers
  ELSE LET e == Head(entries) IN
    ApplyCustomHeaders(
      IF toLowerCase(e.key) \notin CriticalHeaders
        THEN HeadersSet(headers, e.key, e.value)
        ELSE headers,
      Tail(entries))

DefaultHeaders ==
  LET h1 == HeadersSet(NoHeaders, HeaderKey("content-type", "Capitalised"),
                       "application/json")
      h2 == HeadersSet(h1, HeaderKey("x-requested-with", "Capitalised"),
                       "XMLHttpRequest")
      h3 == HeadersSet(h2, HeaderKey("accept", "Capitalised"), "application/json")
  IN IF getCsrfToken # NoValue
       THEN HeadersSet(h3, HeaderKey("x-xsrf-token", "Capitalised"), getCsrfToken)
       ELSE h3

\* customHeaders is the caller's object, or what the caller's function
\* returns or resolves to
buildRequestHeaders(customHeaders) ==
  ApplyCustomHeaders(DefaultHeaders, customHeaders)

\* requestBatchSignedUrls builds the headers of its request
BuildRequestHeaders ==
  /\ requestHeaders = NoHeaders
  /\ requestHeaders' = buildRequestHeaders(signedUrlHeaders)
  /\ UNCHANGED <<callbacks, signedUrlHeaders, csrfToken, refFiles, response, thrown,
                 invoked, maxFiles,
                 fileUploads, errors, activeUploads, abortControllers, fileRefs,
                 transfers, calls, alertTimers, inputs, budget, images,
                 objectURLs>>

\* ------------------------------------------------- error responses
\* an UploadError of the upload library (its details are left out)
createError(type, message) == [type |-> type, message |-> message]

NothingThrown == createError(NoValue, NoValue)

\* a key of the errors object is a field path, kept as its segments between
\* the dots: "files.0.filesize" is <<"files", "0", "filesize">>
startsWithFiles(key) == Len(key) >= 2 /\ key[1] = "files"

\* Object.keys(errors).filter(startsWith("files.")).flatMap(key => errors[key])
RECURSIVE flatMapFileErrors(_)
flatMapFileErrors(entries) ==
  IF entries = <<>> THEN <<>>
  ELSE (IF startsWithFiles(Head(entries).key) THEN Head(entries).messages ELSE <<>>)
         \o flatMapFileErrors(Tail(entries))

\* Array.prototype.join
RECURSIVE join(_, _)
join(strings, separator) ==
  IF strings = <<>> THEN ""
  ELSE IF Len(strings) = 1 THEN strings[1]
  ELSE strings[1] \o separator \o join(Tail(strings), separator)

\* a string that counts as true in a condition
Truthy(string) == string # NoValue /\ string # ""

\* NoValue stands for null
parseValidationErrors(errorData) ==
  IF ~errorData.hasErrors THEN NoValue
  ELSE LET fileErrors == flatMapFileErrors(errorData.errors) IN
    IF Len(fileErrors) > 0 THEN join(fileErrors, ", ") ELSE NoValue

\* mutant of handle422Error: the body's message is not looked at
handle422ErrorGeneric(resp) ==
  IF resp.json # "object"
    THEN createError("validation_error", "Invalid file parameters")
    ELSE LET validationMessage == parseValidationErrors(resp) IN
      createError("validation_error",
                  IF Truthy(validationMessage) THEN validationMessage
                  ELSE "Invalid file parameters")

\* a body that is no JSON makes response.json() throw, the body null makes
\* the read of errorData.errors throw: both end in the catch block
handle422Error(resp) ==
  IF resp.json # "object"
    THEN createError("validation_error", "Invalid file parameters")
    ELSE LET validationMessage == parseValidationErrors(resp) IN
      IF Truthy(validationMessage)
        THEN createError("validation_error", validationMessage)
        ELSE createError("validation_error",
                         IF Truthy(resp.message) THEN resp.message
                         ELSE "Invalid file parameters")

handleErrorResponse(resp, errorMessage) ==
  IF resp.status = 422 THEN handle422Error(resp)
  ELSE createError("server_error", errorMessage)

\* requestBatchSignedUrls gets a response that is not ok
HandleErrorResponse ==
  /\ thrown = NothingThrown
  /\ response.status \notin 200..299
  /\ thrown' = handleErrorResponse(response, "Unable to obtain upload URL")
  /\ UNCHANGED <<callbacks, signedUrlHeaders, csrfToken, refFiles, requestHeaders, response,
                 invoked, maxFiles, fileUploads, errors, activeUploads,
                 abortControllers, fileRefs, transfers, calls, alertTimers,
                 inputs, budget, images, objectURLs>>

\* ------------------------------------------------- the storage request
\* uploadFile has returned
Returned == createError("returned", NoValue)

\* xhr.onloadend: readyState is 4 by then
onloadend(status) ==
  IF status = 200 THEN Returned
  ELSE IF status = 403 THEN createError("Error", "Upload unauthorized")
  ELSE createError("Error", "Upload failed")

\* the handlers that run for what happens to the request, in their order, each
\* with what it settles the promise with: a response ends in loadend; a
\* network fault in error, then loadend with status 0; an abort of the signal
\* runs abortHandler, whose xhr.abort() dispatches loadend with status 0
\* before the handler rejects; a signal that is aborted from the start runs
\* abortHandler before the request has handlers
Handlers(answer) ==
  CASE answer.event = "load" -> <<onloadend(answer.status)>>
    [] answer.event = "error" ->
         <<createError("Error", "Network error during upload"), onloadend(0)>>
    [] answer.event = "abort" ->
         <<onloadend(0), createError("Error", "Upload aborted")>>
    [] answer.event = "aborted" -> <<createError("Error", "Upload aborted")>>

\* a promise keeps what it is settled with first
uploadToS3Storage(answer) == Head(Handlers(answer))

\* uploadFile gives every rejection of uploadToS3Storage the type s3_upload
\* and keeps its message
uploadFile(answer) ==
  LET settled == uploadToS3Storage(answer) IN
    IF settled = Returned THEN Returned
    ELSE createError("s3_upload", settled.message)

UploadFile ==
  /\ thrown = NothingThrown
  /\ thrown' = uploadFile(response)
  /\ UNCHANGED <<callbacks, signedUrlHeaders, csrfToken, refFiles, requestHeaders, response,
                 invoked, maxFiles, fileUploads, errors, activeUploads,
                 abortControllers, fileRefs, transfers, calls, alertTimers,
                 inputs, budget, images, objectURLs>>

\* ------------------------------------------------------------ Init
\* the provider as constructed (no defaultFiles), for a configuration and a user
Start(mf, ins, img, b) ==
  /\ maxFiles = mf
  /\ inputs = ins
  /\ images = img
  /\ budget = b
  /\ objectURLs = <<>>
  /\ invoked = <<>>
  /\ requestHeaders = NoHeaders
  /\ fileUploads = <<>>
  /\ errors = <<>>
  /\ activeUploads = {}
  /\ abortControllers = [h \in Hashes |-> None]
  /\ fileRefs = {}
  /\ refFiles = [h \in Hashes |-> None]
  /\ transfers = {}
  /\ calls = <<>>
  /\ alertTimers = {}

\* the rest of the configuration: the callbacks, the caller's headers and the
\* anti-CSRF cookie
OptionsAnswered(cb, headers, token, answer) ==
  /\ callbacks = cb
  /\ signedUrlHeaders = headers
  /\ csrfToken = token
  /\ response = answer
  /\ thrown = NothingThrown

\* no request of the upload library is looked at
NoAnswer == [status |-> 0]

Options(cb, headers, token) == OptionsAnswered(cb, headers, token, NoAnswer)

\* no callbacks, no headers of the caller's, no cookie
Plain == Options(FALSE, <<>>, NoValue)

Seqs(S, n) == UNION {[1..k -> S] : k \in 1..n}

Budget ==
  [add |-> MaxAdds, retry |-> MaxRetries, remove |-> MaxRemoves,
   removeAll |-> MaxRemoveAlls, addErrors |-> MaxAddErrors,
   clearErrors |-> MaxClearErrors]

Init ==
  /\ \E mf \in 1..SmallCap : Start(mf, Seqs(1..SmallHashes, SmallBatch), {}, Budget)
  /\ Plain

Spend(op) ==
  /\ budget[op] > 0
  /\ budget' = [budget EXCEPT ![op] = @ - 1]

\* -------------------------------------------------------------- errors
\* an UploadError: its type, its message and the value that the code puts into
\* the message or the details (a file name, a count; None if there is none)
UploadError(type, message, arg) == [type |-> type, message |-> message, arg |-> arg]

MaximumFilesReached == UploadError("validation_error", "Maximum files reached", maxFiles)

FileLimitExceeded(availableSlots) ==
  UploadError("validation_error", "File limit exceeded", availableSlots)

FailedToProcess(name) == UploadError("validation_error", "Failed to process file", name)

NotUploaded(name) == UploadError("duplicate_file", "was not uploaded", name)

\* what requestBatchSignedUrls throws
RequestFailed == UploadError("server_error", "Unable to obtain upload URL", None)

\* ------------------------------------------------------------ addFiles
ProcessingErrors(failed) == [k \in 1..Len(failed) |-> FailedToProcess(failed[k])]

RemoveAt(s, i) == SubSeq(s, 1, i - 1) \o SubSeq(s, i + 1, Len(s))

\* addFiles up to its first await: the capacity check against the closure's map
AddFiles(newFiles) ==
  LET availableSlots == maxFiles - Len(fileUploads)
      filesToProcess == Take(newFiles, availableSlots)
  IN
  /\ Spend("add")
  /\ IF availableSlots <= 0
       THEN /\ errors' = <<MaximumFilesReached>>
            /\ calls' = calls
       ELSE /\ Len(calls) < MaxCalls
            /\ errors' = IF Len(newFiles) > Len(filesToProcess)
                           THEN <<FileLimitExceeded(availableSlots)>> ELSE <<>>
            /\ calls' = Append(calls, [kind |-> "add", snap |-> Keys(fileUploads),
                                       todo |-> filesToProcess, reqs |-> <<>>,
                                       previews |-> <<>>, failed |-> <<>>, sent |-> 0,
                                       status |-> "none"])
  /\ Commit(Store)
  /\ invoked' = <<>>
  /\ UNCHANGED <<options, refFiles, maxFiles, alertTimers, inputs, images, objectURLs>>

\* mutant of Remaining: a file that fails to hash ends the loop
RemainingUnlessFailed(todo, ok) == IF ok THEN Tail(todo) ELSE <<>>

\* the files that the for loop goes on with after the file at the head of
\* todo was processed (a file that failed to hash is skipped: continue)
Remaining(todo, ok) == Tail(todo)

\* mutant of RequestsSent: one sendFileRequest call per staged file
RequestsSentPerFile(sent, done, reqs) == IF done THEN Len(reqs) ELSE sent

\* the sendFileRequest calls made once the loop has ended with fileRequests reqs
RequestsSent(sent, done, reqs) == IF done /\ reqs # <<>> THEN sent + 1 ELSE sent

\* one iteration of the for loop: calculateSHA256 of the next file settles
HashResolve(i, ok) ==
  LET c == calls[i]
      file == Head(c.todo)
      h == calculateSHA256(file)
      preview == IF ok /\ file \in images THEN Len(objectURLs) + 1 ELSE None
      dup == ok /\ h \in c.snap
      reqs == IF ok /\ ~dup THEN Append(c.reqs, h) ELSE c.reqs
      previews == IF ok /\ ~dup THEN Append(c.previews, preview) ELSE c.previews
      failed == IF ok THEN c.failed ELSE Append(c.failed, file)
      rest == Remaining(c.todo, ok)
      done == rest = <<>>
  IN
  /\ c.kind = "add"
  /\ c.todo # <<>>
  /\ objectURLs' = IF preview # None THEN Append(objectURLs, 0) ELSE objectURLs
  /\ alertTimers' = IF dup THEN alertTimers \cup {h} ELSE alertTimers
  /\ refFiles' = IF ok THEN [refFiles EXCEPT ![h] = file] ELSE refFiles
  /\ errors' = IF done THEN errors \o ProcessingErrors(failed) ELSE errors
  /\ calls' = IF done /\ reqs = <<>>
                THEN RemoveAt(calls, i)
                ELSE [calls EXCEPT ![i] =
                        [c EXCEPT !.todo = rest, !.reqs = reqs, !.previews = previews,
                                  !.failed = failed,
                                  !.sent = RequestsSent(@, done, reqs)]]
  /\ Commit([Store EXCEPT
       !.refs = IF ok THEN @ \cup {h} ELSE @,
       !.files = IF dup THEN updateFileUpload(@, h, [duplicateAlert |-> "true"]) ELSE @])
  /\ invoked' = <<>>
  /\ UNCHANGED <<options, maxFiles, inputs, budget, images>>

\* ------------------------------------------------------ sendFileRequest
\* a call of a callback of the configuration, with the files (of a record, of a
\* File) in its argument
Invocation(callback, files) == [callback |-> callback, files |-> files]

\* fileRequests.forEach((req, index) => ...): the request at position index
\* takes signedUrls[index], and is passed over if there is none
RECURSIVE SetAll(_, _, _, _)
SetAll(fs, c, signedUrls, index) ==
  IF index > Len(c.reqs) THEN fs
  ELSE SetAll(IF index <= Len(signedUrls)
                THEN MapSet(fs, NewFileUpload(c.reqs[index], signedUrls[index],
                                              c.previews[index]))
                ELSE fs,
              c, signedUrls, index + 1)

\* mutant of FailAll: a failed request leaves the records as they are
FailNone(fs, reqs, snap) == fs

\* the catch block: the records that the closure's fileUploads has are failed
RECURSIVE FailAll(_, _, _)
FailAll(fs, reqs, snap) ==
  IF reqs = <<>> THEN fs
  ELSE FailAll(IF Head(reqs) \in snap
                 THEN updateFileUpload(fs, Head(reqs),
                                       [status |-> "error", error |-> RequestFailed.message])
                 ELSE fs,
               Tail(reqs), snap)

\* success.map((req) => fileRefs.current.get(req.sha256)) without the
\* undefined ones
successFiles(success) ==
  LET present == SelectSeq(success, LAMBDA h : h \in fileRefs)
  IN [k \in 1..Len(present) |-> refFiles[present[k]]]

\* the updates of sendFileRequest after its await
AfterNegotiation(i, ok, signedUrls) ==
  [Store EXCEPT
     !.files = IF ok THEN SetAll(@, calls[i], signedUrls, 1)
               ELSE FailAll(@, calls[i].reqs, calls[i].snap)]

\* requestBatchSignedUrls settles, with the array signedUrls when it resolves;
\* the caller (addFiles or retryUpload) then appends the request errors
SignedUrlsReturn(i, ok, signedUrls) ==
  LET c == calls[i]
      success == IF ok THEN Take(c.reqs, Len(signedUrls)) ELSE <<>>
  IN
  /\ c.todo = <<>>
  /\ invoked' = IF callbacks /\ c.kind = "add" /\ success # <<>>
                  THEN <<Invocation("onFilesChange", successFiles(success))>>
                  ELSE <<>>
  /\ errors' = IF ok THEN errors ELSE Append(errors, RequestFailed)
  /\ calls' = RemoveAt(calls, i)
  /\ Commit(AfterNegotiation(i, ok, signedUrls))
  /\ UNCHANGED <<options, refFiles, maxFiles, alertTimers, inputs, budget, images, objectURLs>>

\* the same with a server that answers every requested file, in the order of
\* the request
NegotiateReturn(i, ok) == SignedUrlsReturn(i, ok, calls[i].reqs)

\* ---------------------------------------------------------- retryUpload
RetryGuard(fileId) ==
  Has(fileUploads, fileId) /\ fileId \in fileRefs /\ fileId \notin activeUploads

RetryUpload(fileId) ==
  /\ Spend("retry")
  /\ IF RetryGuard(fileId)
       THEN /\ Len(calls) < MaxCalls
            /\ calls' = Append(calls, [kind |-> "retry", snap |-> Keys(fileUploads),
                                       todo |-> <<>>, reqs |-> <<fileId>>,
                                       previews |-> <<Get(fileUploads, fileId).preview>>,
                                       failed |-> <<>>, sent |-> 1,
                                       status |-> Get(fileUploads, fileId).status])
       ELSE calls' = calls
  /\ Commit(Store)
  /\ invoked' = <<>>
  /\ UNCHANGED <<options, refFiles, maxFiles, errors, alertTimers, inputs, images, objectURLs>>

\* ------------------------------------------------------------- removal
Abort(ts, ids) ==
  {IF t.id \in ids THEN [t EXCEPT !.aborted = TRUE] ELSE t : t \in ts}

\* URL.revokeObjectURL(preview), for a file that has a preview
Revoke(urls, preview) ==
  IF preview = None THEN urls ELSE [urls EXCEPT ![preview] = @ + 1]

RECURSIVE RevokeAll(_, _)
RevokeAll(urls, fs) ==
  IF fs = <<>> THEN urls ELSE RevokeAll(Revoke(urls, Head(fs).preview), Tail(fs))

\* mutant of removeFile: the refs are cleaned up whether or not there is a record
removeFileWithoutRecord(st, fileId) ==
  [st EXCEPT
     !.transfers = Abort(@, {st.ctrl[fileId]}),
     !.ctrl = [@ EXCEPT ![fileId] = None],
     !.files = MapDelete(@, fileId),
     !.refs = @ \ {fileId},
     !.active = @ \ {fileId}]

\* the two functional updates of removeFile
removeFile(st, fileId) ==
  IF Has(st.files, fileId)
    THEN [st EXCEPT
            !.transfers = Abort(@, {st.ctrl[fileId]}),
            !.ctrl = [@ EXCEPT ![fileId] = None],
            !.files = MapDelete(@, fileId),
            !.refs = @ \ {fileId},
            !.active = @ \ {fileId}]
    ELSE [st EXCEPT !.active = @ \ {fileId}]

RemoveFile(fileId) ==
  /\ Spend("remove")
  /\ objectURLs' = IF Has(fileUploads, fileId)
                     THEN Revoke(objectURLs, Get(fileUploads, fileId).preview)
                     ELSE objectURLs
  /\ refFiles' = IF Has(fileUploads, fileId)
                   THEN [refFiles EXCEPT ![fileId] = None] ELSE refFiles
  /\ Commit(removeFile(Store, fileId))
  /\ invoked' = <<>>
  /\ UNCHANGED <<options, maxFiles, errors, calls, alertTimers, inputs, images>>

RemoveAll ==
  /\ Spend("removeAll")
  /\ objectURLs' = RevokeAll(objectURLs, fileUploads)
  /\ refFiles' = [h \in Hashes |-> None]
  /\ errors' = <<>>
  /\ Commit([Store EXCEPT
       !.transfers = Abort(@, {abortControllers[h] : h \in Hashes}),
       !.ctrl = [h \in Hashes |-> None],
       !.active = {},
       !.files = <<>>,
       !.refs = {}])
  /\ invoked' = <<>>
  /\ UNCHANGED <<options, maxFiles, calls, alertTimers, inputs, images>>

\* --------------------------------------- uploadSingleFile after its await
Outcomes == {"resolve", "reject", "duplicate_file"}

\* mutant of AfterUpload: a duplicate_file rejection is handled like any other
AfterUploadMarkingDuplicate(fs, h, outcome) ==
  CASE outcome = "resolve" ->
         updateFileUpload(fs, h, [status |-> "complete", progress |-> 100])
    [] OTHER ->
         updateFileUpload(fs, h, [status |-> "error", error |-> "Upload failed"])

AfterUpload(fs, h, outcome) ==
  CASE outcome = "resolve" ->
         updateFileUpload(fs, h, [status |-> "complete", progress |-> 100])
    [] outcome = "duplicate_file" -> MapDelete(fs, h)
    [] OTHER ->
         updateFileUpload(fs, h, [status |-> "error", error |-> "Upload failed"])

\* mutant of UploadCallbacks: onUploadComplete is called when the await is
\* over, whatever its outcome
UploadCallbacksAfterAwait(h, outcome) ==
  <<Invocation("onUploadComplete", <<h>>)>>

\* the callback that uploadSingleFile calls after its await: the closure's
\* fileUploads holds the record the invocation was started for
UploadCallbacks(h, outcome) ==
  CASE outcome = "resolve" -> <<Invocation("onUploadComplete", <<h>>)>>
    [] outcome = "duplicate_file" -> <<>>
    [] OTHER -> <<Invocation("onUploadError", <<h>>)>>

\* the updates of the try block or the catch block and of the finally block
AfterSettle(t, outcome) ==
  [Store EXCEPT
     !.files = AfterUpload(@, t.sha256, outcome),
     !.ctrl = [@ EXCEPT ![t.sha256] = None],
     !.active = @ \ {t.sha256},
     !.transfers = @ \ {t}]

\* uploadLib.uploadFile settles: try/catch, then the finally block
Settle(t, outcome) ==
  /\ t \in transfers
  /\ t.aborted => outcome = "reject"
  /\ invoked' = IF callbacks THEN UploadCallbacks(t.sha256, outcome) ELSE <<>>
  /\ errors' = IF outcome = "duplicate_file"
                 THEN Append(errors, NotUploaded(t.sha256)) ELSE errors
  /\ Commit(AfterSettle(t, outcome))
  /\ UNCHANGED <<options, refFiles, maxFiles, calls, alertTimers, inputs, budget, images, objectURLs>>

ProgressValues == {50}

\* the onProgress callback of a running transfer
Progress(t, p) ==
  /\ t \in transfers
  /\ ~t.aborted
  /\ Commit([Store EXCEPT !.files = updateFileUpload(@, t.sha256, [progress |-> p])])
  /\ invoked' = <<>>
  /\ UNCHANGED <<options, refFiles, maxFiles, errors, calls, alertTimers, inputs, budget, images,
                 objectURLs>>

\* mutant of TimerFire: the timeout passes and the record keeps its flag
TimerFireKeepingAlert(h) ==
  /\ h \in alertTimers
  /\ alertTimers' = alertTimers \ {h}
  /\ Commit(Store)
  /\ invoked' = <<>>
  /\ UNCHANGED <<options, refFiles, maxFiles, errors, calls, inputs, budget, images, objectURLs>>

\* the setTimeout callback of handleDuplicateFile
TimerFire(h) ==
  /\ h \in alertTimers
  /\ alertTimers' = alertTimers \ {h}
  /\ Commit([Store EXCEPT
       !.files = updateFileUpload(@, h, [duplicateAlert |-> "false"])])
  /\ invoked' = <<>>
  /\ UNCHANGED <<options, refFiles, maxFiles, errors, calls, inputs, budget, images, objectURLs>>

\* ------------------------------------------------ addErrors, clearErrors
\* the errors that the provider's user has found by itself
FileTooLarge == UploadError("validation_error", "File too large", None)

WrongFileType == UploadError("validation_error", "File type not accepted", None)

ErrorLists ==
  {<<>>, <<FileTooLarge>>, <<FileTooLarge, WrongFileType>>,
   <<WrongFileType, FileTooLarge>>}

\* mutant of AddErrors: the new errors take the place of the log
AddErrorsReplacing(newErrors) ==
  /\ Spend("addErrors")
  /\ errors' = newErrors
  /\ invoked' = <<>>
  /\ UNCHANGED <<options, refFiles, maxFiles, fileUploads, activeUploads, abortControllers,
                 fileRefs, transfers, calls, alertTimers, inputs, images, objectURLs>>

\* only errors is set: the render that follows leaves the dependencies of the
\* queue effect as they were, so the effect does not run
AddErrors(newErrors) ==
  /\ Spend("addErrors")
  /\ errors' = IF Len(newErrors) > 0 THEN errors \o newErrors ELSE errors
  /\ invoked' = <<>>
  /\ UNCHANGED <<options, refFiles, maxFiles, fileUploads, activeUploads, abortControllers,
                 fileRefs, transfers, calls, alertTimers, inputs, images, objectURLs>>

ClearErrors ==
  /\ Spend("clearErrors")
  /\ errors' = <<>>
  /\ invoked' = <<>>
  /\ UNCHANGED <<options, refFiles, maxFiles, fileUploads, activeUploads, abortControllers,
                 fileRefs, transfers, calls, alertTimers, inputs, images, objectURLs>>

\* ----------------------------------------------------------------- Next
Next ==
  \/ \E b \in inputs : AddFiles(b)
  \/ \E i \in 1..Len(calls), ok \in BOOLEAN : HashResolve(i, ok)
  \/ \E i \in 1..Len(calls), ok \in BOOLEAN : NegotiateReturn(i, ok)
  \/ \E h \in Hashes : RetryUpload(h)
  \/ \E h \in Hashes : RemoveFile(h)
  \/ RemoveAll
  \/ \E t \in transfers, o \in Outcomes : Settle(t, o)
  \/ \E t \in transfers, p \in ProgressValues : Progress(t, p)
  \/ \E h \in Hashes : TimerFire(h)

Spec == Init /\ [][Next]_vars

\* ------------------------------------------------- the queue under load
\* Four files for three slots.  Hashing succeeds, the transfer client reports
\* no progress and no duplicateAlert timer fires while the queue is observed.
InitQueue ==
  Start(QueueCap, {<<1, 2, 3>>, <<1>>, <<4>>}, {}, Budget) /\ Plain

NextQueue ==
  \/ \E b \in inputs : AddFiles(b)
  \/ \E i \in 1..Len(calls) : HashResolve(i, TRUE)
  \/ \E i \in 1..Len(calls), ok \in BOOLEAN : NegotiateReturn(i, ok)
  \/ \E h \in Hashes : RetryUpload(h)
  \/ \E h \in Hashes : RemoveFile(h)
  \/ RemoveAll
  \/ \E t \in transfers, o \in Outcomes : Settle(t, o)

SpecQueue == InitQueue /\ [][NextQueue]_vars

\* ------------------------------------------------------------ liveness
\* Every promise of the upload library settles and every timeout fires; the
\* user's calls are under no obligation.
Fairness ==
  /\ WF_vars(\E i \in 1..Len(calls), ok \in BOOLEAN : HashResolve(i, ok))
  /\ WF_vars(\E i \in 1..Len(calls), ok \in BOOLEAN : NegotiateReturn(i, ok))
  /\ WF_vars(\E t \in transfers, o \in Outcomes : Settle(t, o))
  /\ WF_vars(\E h \in Hashes : TimerFire(h))

SpecLive == Init /\ [][Next]_vars /\ Fairness

\* ------------------------------------------------------------ previews
\* The same user and server as in Spec, with files that are images: every file
\* that is hashed gets a preview URL.
InitPreview ==
  /\ \E mf \in 1..SmallCap :
       Start(mf, Seqs(1..SmallHashes, SmallBatch), 1..SmallHashes, Budget)
  /\ Plain

SpecPreview == InitPreview /\ [][Next]_vars

\* ----------------------------------------------------------- the server
Range(s) == {s[k] : k \in DOMAIN s}

\* the arrays a server can answer a request for reqs with: signed URLs for some
\* or all of the requested hashes, each at most once, in any order
Responses(reqs) ==
  {s \in UNION {[1..k -> Range(reqs)] : k \in 0..Len(reqs)} :
     \A a, b \in DOMAIN s : s[a] = s[b] => a = b}

\* The user of Spec with a server that is free in what it answers; the transfer
\* client reports no progress and no duplicateAlert timer fires.
NextServer ==
  \/ \E b \in inputs : AddFiles(b)
  \/ \E i \in 1..Len(calls), ok \in BOOLEAN : HashResolve(i, ok)
  \/ \E i \in 1..Len(calls) : \E s \in Responses(calls[i].reqs) :
       SignedUrlsReturn(i, TRUE, s)
  \/ \E i \in 1..Len(calls) : SignedUrlsReturn(i, FALSE, <<>>)
  \/ \E h \in Hashes : RetryUpload(h)
  \/ \E h \in Hashes : RemoveFile(h)
  \/ RemoveAll
  \/ \E t \in transfers, o \in Outcomes : Settle(t, o)

SpecServer == Init /\ [][NextServer]_vars

\* ------------------------------------------------------------ capacity
\* Three files at once for a collection that takes one or two.
InitCapacity ==
  /\ \E mf \in 1..SmallCap : Start(mf, {<<1, 2, 3>>, <<2>>}, {}, Budget)
  /\ Plain

SpecCapacity == InitCapacity /\ [][NextQueue]_vars

\* ------------------------------------------------------- the error log
\* One file and a user that also reports errors of its own and clears the log.
InitErrors == Start(SmallCap, {<<1>>}, {}, Budget) /\ Plain

NextErrors ==
  \/ Next
  \/ \E newErrors \in ErrorLists : AddErrors(newErrors)
  \/ ClearErrors

SpecErrors == InitErrors /\ [][NextErrors]_vars

\* ------------------------------------------------------------ callbacks
\* The user and the server of Spec for a configuration with onUploadComplete,
\* onUploadError and onFilesChange.
InitCallbacks ==
  /\ Start(SmallCap, Seqs(1..SmallHashes, SmallBatch), {}, Budget)
  /\ Options(TRUE, <<>>, NoValue)

SpecCallbacks == InitCallbacks /\ [][Next]_vars

\* ------------------------------------------------- the duplicate alert
\* One file that the user adds twice to a collection that takes two, under the
\* fairness of SpecLive.
InitAlert == Start(SmallCap, {<<1>>}, {}, Budget) /\ Plain

SpecAlert == InitAlert /\ [][Next]_vars /\ Fairness

\* ---------------------------------------------------- the request headers
MaxHeaders == 2

HeaderValues == {"custom", "other"}

HeaderEntries ==
  {[key |-> HeaderKey(n, s), value |-> v] :
     n \in HeaderNames, s \in Spellings, v \in HeaderValues}

\* what Object.entries gives for an object of the caller's: no key twice
CustomHeaders ==
  {<<>>} \cup
  {e \in Seqs(HeaderEntries, MaxHeaders) :
     \A a, b \in DOMAIN e : e[a].key = e[b].key => a = b}

\* buildRequestHeaders for every object of at most MaxHeaders headers, with and
\* without the XSRF-TOKEN cookie
InitHeaders ==
  /\ Start(SmallCap, {}, {}, Budget)
  /\ \E headers \in CustomHeaders, token \in {NoValue, "csrf-test-token"} :
       Options(FALSE, headers, token)

NextHeaders == BuildRequestHeaders

SpecHeaders == InitHeaders /\ [][NextHeaders]_vars

\* ------------------------------------------------ validation responses
MaxKeys == 2

MaxMessages == 2

ErrorKeys ==
  {<<"files", "0", "filesize">>, <<"files", "0", "content_type">>,
   <<"filesize">>, <<"files">>}

ErrorMessages == {"File too large", "Invalid file type", ""}

ErrorEntries ==
  {[key |-> k, messages |-> m] :
     k \in ErrorKeys, m \in {<<>>} \cup Seqs(ErrorMessages, MaxMessages)}

\* the errors object of a body: no key twice
ErrorObjects ==
  {<<>>} \cup
  {e \in Seqs(ErrorEntries, MaxKeys) :
     \A a, b \in DOMAIN e : e[a].key = e[b].key => a = b}

ErrorBody(json, hasErrors, errs, message) ==
  [json |-> json, hasErrors |-> hasErrors, errors |-> errs, message |-> message]

\* the responses that are not ok: 422 with a JSON object (with or without
\* errors and message), with null, with a body that is no JSON, and a 500
ErrorResponses ==
  {[status |-> 422] @@ ErrorBody("object", TRUE, e, m) :
     e \in ErrorObjects, m \in {NoValue, "", "The given data was invalid."}}
  \cup {[status |-> 422] @@ ErrorBody("object", FALSE, <<>>, m) :
          m \in {NoValue, "The given data was invalid."}}
  \cup {[status |-> st] @@ ErrorBody(j, FALSE, <<>>, NoValue) :
          st \in {422, 500}, j \in {"null", "malformed"}}

InitValidation ==
  /\ Start(SmallCap, {}, {}, Budget)
  /\ \E answer \in ErrorResponses : OptionsAnswered(FALSE, <<>>, NoValue, answer)

NextValidation == HandleErrorResponse

SpecValidation == InitValidation /\ [][NextValidation]_vars

\* ------------------------------------------------- storage responses
\* xhr.status: 0 or an HTTP status
Statuses == {0} \cup 100..599

\* what can happen to the PUT request
StorageAnswers ==
  {[event |-> "load", status |-> s] : s \in Statuses}
  \cup {[event |-> e, status |-> 0] : e \in {"error", "abort", "aborted"}}

InitTransfer ==
  /\ Start(SmallCap, {}, {}, Budget)
  /\ \E answer \in StorageAnswers : OptionsAnswered(FALSE, <<>>, NoValue, answer)

NextTransfer == UploadFile

SpecTransfer == InitTransfer /\ [][NextTransfer]_vars

\* ----------------------------------------------------- the same content
\* A File and a second File with the same content, for a collection that
\* takes two.
InitDuplicate == Start(SmallCap, {<<1>>, <<NumHashes + 1>>}, {}, Budget) /\ Plain

SpecDuplicate == InitDuplicate /\ [][Next]_vars

\* ================================================================ claims
InFlight(h) == {t \in transfers : t.sha256 = h /\ ~t.aborted}

Status(fs, h) == Get(fs, h).status

\* C1: in every reachable state at most maxConcurrency (3) records have status
\* uploading.
C1_UploadingAtMostCeiling ==
  CountStatus(fileUploads, "uploading") <= maxConcurrency

\* C1 witness: the ceiling binds: three records upload while a fourth, whose
\* File is stored, waits as pending.
C1_Witness ==
  /\ CountStatus(fileUploads, "uploading") = maxConcurrency
  /\ \E i \in 1..Len(fileUploads) :
       /\ fileUploads[i].status = "pending"
       /\ fileUploads[i].sha256 \in fileRefs
       /\ fileUploads[i].sha256 \notin activeUploads

\* C2: the uploadFile invocations that were started and have not settled are
\* never more than 3 (stated here for the invocations that were not cancelled,
\* so a cancelled transfer that has yet to reject is not counted against it).
C2_InFlightAtMostCeiling ==
  Cardinality({t \in transfers : ~t.aborted}) <= maxConcurrency

\* C3: the collection never holds more than maxFiles records.
C3_AtMostMaxFiles ==
  Len(fileUploads) <= maxFiles

\* the hash that call i's pending calculateSHA256 resolves to
NextHash(i) == calculateSHA256(Head(calls[i].todo))

\* the step HashResolve(i, TRUE) pushed its file onto fileRequests
Staged(i) ==
  /\ Len(calls') = Len(calls)
  /\ calls'[i].reqs = Append(calls[i].reqs, NextHash(i))

NoTwoRecordsSameHash ==
  \A i, j \in 1..Len(fileUploads) :
    fileUploads[i].sha256 = fileUploads[j].sha256 => i = j

\* C4: no two records share a hash, and an addFiles input whose hash is that of
\* a record in the collection is not staged for negotiation, leaves the size of
\* the collection unchanged and sets duplicateAlert on that record.
C4_DuplicateInputSkipped ==
  /\ []NoTwoRecordsSameHash
  /\ [][\A i \in 1..Len(calls) :
          (HashResolve(i, TRUE) /\ Has(fileUploads, NextHash(i)))
            => /\ ~Staged(i)
               /\ Len(fileUploads') = Len(fileUploads)
               /\ Get(fileUploads', NextHash(i)).duplicateAlert = "true"]_vars

\* C5: the duplicate check of each file is made against the collection as it is
\* when that file's hash resolves: the file is staged for negotiation exactly
\* when no record with its hash is in the collection at that moment.
C5_CheckedAgainstCurrentCollection ==
  [][\A i \in 1..Len(calls) :
       HashResolve(i, TRUE) => (Staged(i) <=> ~Has(fileUploads, NextHash(i)))]_vars

\* C6: a record with status complete keeps that status for as long as it is in
\* the collection.
C6_CompleteIsFinal ==
  [][\A h \in Hashes :
       (Has(fileUploads, h) /\ Status(fileUploads, h) = "complete"
          /\ Has(fileUploads', h))
         => Status(fileUploads', h) = "complete"]_vars

AllowedTransitions ==
  {<<"pending", "uploading">>, <<"uploading", "complete">>,
   <<"uploading", "error">>, <<"error", "pending">>}

\* the step is the successful return of the negotiation of a retryUpload(h)
RetrySucceeds(h) ==
  \E i \in 1..Len(calls) :
    /\ calls[i].kind = "retry"
    /\ calls[i].reqs = <<h>>
    /\ NegotiateReturn(i, TRUE)

\* the same, for a retryUpload(h) that was called on a failed record
RetryOfFailedSucceeds(h) ==
  \E i \in 1..Len(calls) :
    /\ calls[i].kind = "retry"
    /\ calls[i].reqs = <<h>>
    /\ calls[i].status = "error"
    /\ NegotiateReturn(i, TRUE)

\* C7: every status change of a record is pending->uploading,
\* uploading->complete, uploading->error or error->pending, and error->pending
\* happens only when the negotiation of a retryUpload of that record succeeds.
C7_OnlyLifecycleTransitions ==
  [][\A h \in Hashes :
       (Has(fileUploads, h) /\ Has(fileUploads', h)
          /\ Status(fileUploads, h) # Status(fileUploads', h))
         => /\ <<Status(fileUploads, h), Status(fileUploads', h)>> \in AllowedTransitions
            /\ Status(fileUploads, h) = "error" => RetrySucceeds(h)]_vars

\* C8: with every hash, negotiation and transfer settling, a pending record
\* does not stay pending: it is promoted (or removed by the user) without any
\* further call.
C8_PendingIsPromoted ==
  \A h \in Hashes :
    (Has(fileUploads, h) /\ Status(fileUploads, h) = "pending")
      ~> ~(Has(fileUploads, h) /\ Status(fileUploads, h) = "pending")

\* C9: the successful negotiation of a retryUpload of a failed record adds no
\* record (the collection holds the same hashes before and after), and when a
\* transfer then resolves the record of that hash is complete with progress 100.
C9_RetryAddsNoRecord ==
  [][/\ \A h \in Hashes :
          RetryOfFailedSucceeds(h) => Keys(fileUploads') = Keys(fileUploads)
     /\ \A t \in transfers :
          (Settle(t, "resolve") /\ Has(fileUploads', t.sha256))
            => /\ Status(fileUploads', t.sha256) = "complete"
               /\ Get(fileUploads', t.sha256).progress = 100]_vars

\* C10: retryUpload(id) starts no negotiation and changes no state when id is
\* not in the collection or when a transfer of that record is in flight.
C10_RetryIsNoOp ==
  [][\A h \in Hashes :
       (RetryUpload(h) /\ (~Has(fileUploads, h) \/ InFlight(h) # {}))
         => UNCHANGED <<fileUploads, errors, activeUploads, abortControllers,
                        fileRefs, transfers, calls>>]_vars

\* C11: removeFile(id) on a record whose transfer is in flight cancels that
\* transfer and deletes the record, and (in a run where removeFile is the only
\* call that has cancelled a transfer) the rejection of a cancelled transfer
\* creates no record and sets the status of no record to error.
C11_AbortedTransferLeavesNoTrace ==
  [][/\ \A h \in Hashes :
          (RemoveFile(h) /\ Has(fileUploads, h) /\ InFlight(h) # {})
            => /\ ~Has(fileUploads', h)
               /\ \A t \in InFlight(h) : [t EXCEPT !.aborted = TRUE] \in transfers'
     /\ \A t \in transfers :
          (t.aborted /\ budget.removeAll = MaxRemoveAlls /\ Settle(t, "reject"))
            => /\ Keys(fileUploads') = Keys(fileUploads)
               /\ (Has(fileUploads', t.sha256)
                     /\ Status(fileUploads', t.sha256) = "error")
                    => Status(fileUploads, t.sha256) = "error"]_vars

\* C12: when uploadFile rejects with type duplicate_file, the record of that
\* hash is not in the collection afterwards (so it is not marked error) and the
\* error log grows by exactly one entry, the duplicate_file error that names
\* the file.
C12_DuplicateFileDeletesRecord ==
  [][\A t \in transfers :
       Settle(t, "duplicate_file")
         => /\ ~Has(fileUploads', t.sha256)
            /\ errors' = Append(errors, NotUploaded(t.sha256))]_vars

\* C12 witness: a duplicate_file error is in the log, the file it names has no
\* record and another file's record is still there
C12_Witness ==
  \E k \in 1..Len(errors) :
    /\ errors[k].type = "duplicate_file"
    /\ ~Has(fileUploads, errors[k].arg)
    /\ fileUploads # <<>>

\* no object URL has been revoked more than once
NoUrlRevokedTwice ==
  \A u \in 1..Len(objectURLs) : objectURLs[u] <= 1

\* the preview of a record that is in the collection has not been revoked
NoHeldUrlRevoked ==
  \A k \in 1..Len(fileUploads) :
    fileUploads[k].preview # None => objectURLs[fileUploads[k].preview] = 0

\* the step revokes exactly the previews of the records fs, each once
RevokesPreviewsOf(fs) ==
  /\ Len(objectURLs') = Len(objectURLs)
  /\ \A u \in 1..Len(objectURLs) :
       objectURLs'[u] =
         IF \E k \in 1..Len(fs) : fs[k].preview = u
           THEN objectURLs[u] + 1 ELSE objectURLs[u]

\* C13: removeFile of a record revokes that record's preview URL once and no
\* other, removeAll revokes the preview URL of every record of the collection
\* once and no other; no URL is ever revoked twice, and no URL is revoked while
\* a record of the collection holds it.
C13_PreviewRevokedOnce ==
  /\ [](NoUrlRevokedTwice /\ NoHeldUrlRevoked)
  /\ [][/\ \A h \in Hashes :
            (RemoveFile(h) /\ Has(fileUploads, h))
              => RevokesPreviewsOf(<<Get(fileUploads, h)>>)
       /\ RemoveAll => RevokesPreviewsOf(fileUploads)]_vars

\* no addFiles or retryUpload call and no transfer is in flight
Settled == calls = <<>> /\ transfers = {}

\* C14: once everything in flight has settled, fileRefs holds a File only for
\* the hashes that have a record in the collection.
C14_FileRefsOnlyForRecords ==
  Settled => fileRefs \subseteq Keys(fileUploads)

\* C15: every record of the collection holds the URL that was signed for its
\* own hash, whatever the order of the entries in the responses.
C15_UrlOfOwnHash ==
  \A k \in 1..Len(fileUploads) : fileUploads[k].url = fileUploads[k].sha256

\* the step is the return of call i's request with the array s
Answered(i, s) == SignedUrlsReturn(i, TRUE, s)

\* C16: when a response has no entry for a requested hash, an addFiles call
\* creates no record for that hash and creates the records of the hashes that
\* do have an entry; a retried record that is still in the collection is left
\* in status error with the invalid-response message.
C16_MissingEntry ==
  [][\A i \in 1..Len(calls) : \A s \in Responses(calls[i].reqs) :
       Answered(i, s) =>
         \A h \in Range(calls[i].reqs) :
           /\ (calls[i].kind = "add" /\ h \notin Range(s))
                => (Has(fileUploads', h) <=> Has(fileUploads, h))
           /\ (calls[i].kind = "add" /\ h \in Range(s)) => Has(fileUploads', h)
           /\ (calls[i].kind = "retry" /\ h \notin Range(s) /\ Has(fileUploads', h))
                => /\ Status(fileUploads', h) = "error"
                   /\ Get(fileUploads', h).error = "Invalid response from server"]_vars

\* fileRequests of call i after HashResolve(i, ok)
StagedAfter(i, ok) ==
  IF ok /\ NextHash(i) \notin calls[i].snap
    THEN Append(calls[i].reqs, NextHash(i)) ELSE calls[i].reqs

\* C17: a call has made no request while it hashes; when the loop of an
\* addFiles call ends the call makes one request for all the files it staged,
\* or ends without a request if it staged none; an effective retryUpload(id)
\* makes one request for id alone; every call whose request returns has made
\* exactly one request, its own.
C17_OneRequestPerCall ==
  /\ [](\A i \in 1..Len(calls) :
          calls[i].sent = IF calls[i].todo = <<>> THEN 1 ELSE 0)
  /\ [][/\ \A i \in 1..Len(calls), ok \in BOOLEAN :
            (HashResolve(i, ok) /\ Tail(calls[i].todo) = <<>>)
              => IF StagedAfter(i, ok) = <<>>
                   THEN calls' = RemoveAt(calls, i) /\ calls[i].sent = 0
                   ELSE /\ Len(calls') = Len(calls)
                        /\ calls'[i].sent = 1
                        /\ calls'[i].reqs = StagedAfter(i, ok)
       /\ \A h \in Hashes :
            (RetryUpload(h) /\ RetryGuard(h))
              => /\ Len(calls') = Len(calls) + 1
                 /\ calls'[Len(calls')].sent = 1
                 /\ calls'[Len(calls')].reqs = <<h>>
       /\ \A i \in 1..Len(calls), ok \in BOOLEAN :
            SignedUrlsReturn(i, ok, calls[i].reqs)
              => calls[i].sent = 1 /\ calls' = RemoveAt(calls, i)]_vars

\* C17 witness: an addFiles call has staged two files and waits for the one
\* request it made for both, while a retryUpload waits for its own
C17_Witness ==
  \E i, j \in 1..Len(calls) :
    /\ calls[i].kind = "add" /\ Len(calls[i].reqs) = 2 /\ calls[i].sent = 1
    /\ calls[j].kind = "retry" /\ calls[j].sent = 1

\* C18: when the request of an addFiles call fails, no record is created for a
\* file of that request and the error log grows by exactly the request's
\* error; when the request of a retryUpload fails the log grows likewise and
\* the retried record, if it is still in the collection, has status error and
\* the message of the request's error.
C18_NegotiationFailure ==
  [][\A i \in 1..Len(calls) :
       NegotiateReturn(i, FALSE)
         => /\ errors' = Append(errors, RequestFailed)
            /\ \A h \in Range(calls[i].reqs) :
                 /\ Has(fileUploads', h) <=> Has(fileUploads, h)
                 /\ (calls[i].kind = "retry" /\ Has(fileUploads', h))
                      => /\ Status(fileUploads', h) = "error"
                         /\ Get(fileUploads', h).error = RequestFailed.message]_vars

\* C18 witness: the request of a retry has failed: its error is in the log and
\* the record carries its message
C18_Witness ==
  /\ \E k \in 1..Len(errors) : errors[k] = RequestFailed
  /\ \E h \in Hashes :
       /\ Has(fileUploads, h)
       /\ Status(fileUploads, h) = "error"
       /\ Get(fileUploads, h).error = RequestFailed.message

\* the capacity that addFiles computes when it is called
RemainingCapacity == maxFiles - Len(fileUploads)

\* the addFiles(b) step took the first r files of b for hashing and logged err
Accepts(b, r, err) ==
  /\ Len(calls') = Len(calls) + 1
  /\ calls'[Len(calls')].todo = SubSeq(b, 1, r)
  /\ calls'[Len(calls')].reqs = <<>>
  /\ errors' = <<err>>

\* the addFiles(b) step started no hashing and no request
Refuses == calls' = calls /\ fileRefs' = fileRefs /\ fileUploads' = fileUploads

C20_FailedHashSkipsOneFile ==
  [][/\ \A i \in 1..Len(calls), ok \in BOOLEAN :
          HashResolve(i, ok)
            => LET failed == IF ok THEN calls[i].failed
                             ELSE Append(calls[i].failed, NextHash(i))
                   rest == Tail(calls[i].todo)
               IN /\ ~ok => StagedAfter(i, ok) = calls[i].reqs
                  /\ rest # <<>>
                       => /\ Len(calls') = Len(calls)
                          /\ calls'[i].todo = rest
                          /\ calls'[i].reqs = StagedAfter(i, ok)
                          /\ calls'[i].failed = failed
                          /\ errors' = errors
                  /\ rest = <<>>
                       => /\ errors' = errors \o ProcessingErrors(failed)
                          /\ StagedAfter(i, ok) # <<>>
                               => /\ Len(calls') = Len(calls)
                                  /\ calls'[i].reqs = StagedAfter(i, ok)
     /\ \A i \in 1..Len(calls) :
          (NegotiateReturn(i, TRUE) /\ calls[i].failed # <<>>)
            => \A h \in Range(calls[i].reqs) : Has(fileUploads', h)]_vars

\* C20 witness: of the two files of the only addFiles call made, one failed to
\* hash and has its error in the log, the other one has its record
C20_Witness ==
  /\ budget.add = MaxAdds - 1
  /\ calls = <<>>
  /\ \E f, g \in Hashes :
       /\ f # g
       /\ errors = <<FailedToProcess(f)>>
       /\ Keys(fileUploads) = {g}

\* s is the beginning of t
IsPrefix(s, t) == Len(s) <= Len(t) /\ SubSeq(t, 1, Len(s)) = s

\* C21: a step that is not a clearErrors or removeAll call leaves every entry
\* of the error log in its place: the log after the step begins with the log
\* before it.
C21_LogAppendOnly ==
  [][ClearErrors \/ RemoveAll \/ IsPrefix(errors, errors')]_vars

\* C22: addErrors(list) puts the errors of list, in their order, behind the
\* entries of the log, clearErrors() empties the log, and both leave the
\* collection, activeUploads, fileRefs, the abort controllers, the transfers and
\* the calls in flight as they are; with an empty list the log stays as it is.
C22_ErrorLogOnly ==
  [][/\ \A newErrors \in ErrorLists :
          AddErrors(newErrors)
            => /\ errors' = errors \o newErrors
               /\ UNCHANGED <<fileUploads, activeUploads, fileRefs, abortControllers,
                              transfers, calls, objectURLs, invoked>>
     /\ ClearErrors
          => /\ errors' = <<>>
             /\ UNCHANGED <<fileUploads, activeUploads, fileRefs, abortControllers,
                            transfers, calls, objectURLs, invoked>>]_vars

\* C22 witness: two errors were added, in their order, behind the error that
\* was in the log, while a record was in the collection
C22_Witness ==
  /\ Len(errors) = 3
  /\ SubSeq(errors, 2, 3) = <<FileTooLarge, WrongFileType>>
  /\ errors[1] \notin {FileTooLarge, WrongFileType}
  /\ fileUploads # <<>>

\* remainingSlots of the context value
remainingSlots(fs) == maxFiles - Len(fs)

\* C23: right after removeAll the collection, the error log and activeUploads
\* are empty, every uploadFile invocation that has not settled has had its
\* signal aborted, and remainingSlots is maxFiles.
C23_RemoveAllLeavesNothing ==
  [][RemoveAll
       => /\ fileUploads' = <<>>
          /\ errors' = <<>>
          /\ activeUploads' = {}
          /\ \A t \in transfers' : t.aborted
          /\ remainingSlots(fileUploads') = maxFiles]_vars

C25_ProgressMonotone ==
  /\ [](\A i \in 1..Len(fileUploads) :
          fileUploads[i].status = "complete" => fileUploads[i].progress = 100)
  /\ [][\A h \in Hashes :
          (/\ Has(fileUploads, h) /\ Has(fileUploads', h)
           /\ Get(fileUploads, h).status = "uploading"
           /\ Get(fileUploads', h).status = "uploading")
            => Get(fileUploads', h).progress >= Get(fileUploads, h).progress]_vars

Invocations(callback) == SelectSeq(invoked', LAMBDA c : c.callback = callback)

Resolves(t) == Settle(t, "resolve")

Fails(t) == Settle(t, "reject") \/ Settle(t, "duplicate_file")

\* C26: a step in which a transfer resolves calls onUploadComplete once, with
\* the list of the one record the transfer was started for; a step in which a
\* transfer fails, and any other step, does not call onUploadComplete.
C26_CompleteOncePerTransfer ==
  [][/\ \A t \in transfers :
          Resolves(t) =>
            Invocations("onUploadComplete") =
              <<Invocation("onUploadComplete", <<t.sha256>>)>>
     /\ \A t \in transfers :
          Fails(t) => Invocations("onUploadComplete") = <<>>
     /\ (~ \E t \in transfers : Resolves(t)) =>
          Invocations("onUploadComplete") = <<>>]_vars

\* C26 witness: onUploadComplete has just been called for a record that is
\* complete
C26_Witness ==
  \E h \in Hashes :
    /\ invoked = <<Invocation("onUploadComplete", <<h>>)>>
    /\ Has(fileUploads, h)
    /\ Get(fileUploads, h).status = "complete"

\* C27: a step in which a transfer ends with its record in status error calls
\* onUploadError once, with the File of that record, and the rejection of a
\* transfer that removeFile or removeAll has cancelled calls neither
\* onUploadError nor onUploadComplete.
C27_ErrorOnceNoneOnCancel ==
  [][\A t \in transfers :
       Settle(t, "reject") =>
         IF t.aborted
           THEN invoked' = <<>>
           ELSE invoked' = <<Invocation("onUploadError", <<t.sha256>>)>>]_vars

\* what the failure of t leaves of another running transfer u: the transfer
\* itself, its record's status and progress, its controller and its slot
Untouched(u) ==
  /\ u \in transfers'
  /\ abortControllers'[u.sha256] = abortControllers[u.sha256]
  /\ u.sha256 \in activeUploads => u.sha256 \in activeUploads'
  /\ Has(fileUploads, u.sha256) =>
       /\ Has(fileUploads', u.sha256)
       /\ Get(fileUploads', u.sha256).status = Get(fileUploads, u.sha256).status
       /\ Get(fileUploads', u.sha256).progress = Get(fileUploads, u.sha256).progress

\* C28: when a running transfer fails, every other running transfer goes on:
\* it is not aborted, its record keeps its status and progress, its abort
\* controller stays registered and its slot in activeUploads stays taken.
C28_FailureLeavesSiblings ==
  [][\A t \in transfers :
       (~t.aborted /\ Settle(t, "reject")) =>
         \A u \in transfers \ {t} : ~u.aborted => Untouched(u)]_vars
\* C29: a record whose duplicateAlert is true is later removed or has its
\* duplicateAlert false, and the timeout of handleDuplicateFile that fires
\* for a hash without a record leaves the collection as it is.
C29_DuplicateAlertClears ==
  /\ \A h \in Hashes :
       (Has(fileUploads, h) /\ Get(fileUploads, h).duplicateAlert = "true")
         ~> (~Has(fileUploads, h) \/ Get(fileUploads, h).duplicateAlert = "false")
  /\ [][\A h \in Hashes :
          (TimerFire(h) /\ ~Has(fileUploads, h)) => fileUploads' = fileUploads]_vars

\* C29 witness: the timeout has fired and the record, still there, has
\* duplicateAlert false
C29_Witness ==
  \E h \in Hashes :
    /\ Has(fileUploads, h)
    /\ Get(fileUploads, h).duplicateAlert = "false"
    /\ h \notin alertTimers

\* C30: the headers of the negotiation request have Content-Type
\* application/json, Accept application/json, X-Requested-With XMLHttpRequest
\* and, if there is an XSRF-TOKEN cookie, X-XSRF-TOKEN with the cookie's
\* value, whatever headers the caller supplies.
C30_CriticalHeadersKept ==
  requestHeaders # NoHeaders =>
    /\ requestHeaders["content-type"] = "application/json"
    /\ requestHeaders["accept"] = "application/json"
    /\ requestHeaders["x-requested-with"] = "XMLHttpRequest"
    /\ csrfToken # NoValue => requestHeaders["x-xsrf-token"] = csrfToken
\* the keys of the body's errors object that start with "files."
FileKeys == {k \in DOMAIN response.errors : startsWithFiles(response.errors[k].key)}

\* C31 as stated: a 422 response yields a validation_error whose message is
\* the messages under the keys that start with "files.", joined by ", " in
\* the order of the body, and "Invalid file parameters" when there is no such
\* key.
C31_ValidationMessage ==
  (thrown # NothingThrown /\ response.status = 422) =>
    /\ thrown.type = "validation_error"
    /\ thrown.message =
         IF response.json = "object" /\ FileKeys # {}
           THEN join(flatMapFileErrors(response.errors), ", ")
           ELSE "Invalid file parameters"

\* C31 amended: the message is the joined messages of the "files." keys when
\* that string is not empty, else the body's message when that is a
\* non-empty string, else "Invalid file parameters".
C31_ValidationMessageOrBodyMessage ==
  (thrown # NothingThrown /\ response.status = 422) =>
    /\ thrown.type = "validation_error"
    /\ LET joined == IF response.json = "object"
                       THEN join(flatMapFileErrors(response.errors), ", ")
                       ELSE ""
       IN thrown.message =
            IF joined # "" THEN joined
            ELSE IF response.json = "object" /\ response.message \notin {NoValue, ""}
              THEN response.message
            ELSE "Invalid file parameters"

\* C31 witness: a 422 body with two keys that start with "files.", whose
\* messages have been joined
C31_Witness ==
  /\ response.status = 422
  /\ response.json = "object"
  /\ Cardinality(FileKeys) = 2
  /\ thrown.message = "File too large, Invalid file type"

\* C32: uploadFile returns exactly when the storage endpoint answers with a
\* status from 200 to 299; for every other status, a network fault or an
\* abort it throws an error of type s3_upload, with the message "Upload
\* unauthorized" for a 403.
C32_ResolvesOn2xx ==
  thrown # NothingThrown =>
    /\ thrown = Returned <=> (response.event = "load" /\ response.status \in 200..299)
    /\ thrown # Returned => thrown.type = "s3_upload"
    /\ (response.event = "load" /\ response.status = 403) =>
         thrown.message = "Upload unauthorized"
\* the least of two numbers
Min(a, b) == IF a <= b THEN a ELSE b

\* the records that a pass over st can promote, in the order of the collection
Eligible(st) == PendingFiles(st.files, st.active)

\* one pass of the queue effect over st promotes Min(p, 3 - a) records, one
\* new transfer each, and no record that stays pending stands before a
\* promoted one
PassInOrder(st) ==
  LET after == ProcessQueue(st)
      p == Len(Eligible(st))
      a == Cardinality(st.active)
      promoted == {h \in Hashes :
                     /\ \E k \in 1..p : Eligible(st)[k].sha256 = h
                     /\ Get(after.files, h).status = "uploading"}
  IN /\ Cardinality(promoted) = (IF a >= maxConcurrency THEN 0
                                  ELSE Min(p, maxConcurrency - a))
     /\ Cardinality(after.transfers) = Cardinality(st.transfers) + Cardinality(promoted)
     /\ \A h \in promoted :
          Cardinality({t \in after.transfers \ st.transfers : t.sha256 = h}) = 1
     /\ \A j, k \in 1..p :
          (j < k /\ Eligible(st)[k].sha256 \in promoted)
            => Eligible(st)[j].sha256 \in promoted

\* C33: the pass of the queue effect that follows a negotiation, the end of a
\* transfer or a removal promotes exactly min(p, 3 - a) records (p the pending
\* records outside activeUploads, a the size of activeUploads), in the order
\* of the collection, with one transfer per promoted record and no pending
\* record passed over for a later one.
C33_PassPromotesInOrder ==
  /\ \A i \in 1..Len(calls), ok \in BOOLEAN :
       calls[i].todo = <<>> => PassInOrder(AfterNegotiation(i, ok, calls[i].reqs))
  /\ \A t \in transfers, o \in Outcomes :
       (t.aborted => o = "reject") => PassInOrder(AfterSettle(t, o))
  /\ \A h \in Hashes : PassInOrder(removeFile(Store, h))

\* C34: a record has an error message only while its status is error: a
\* pending, uploading or complete record has none.
C34_ErrorOnlyWhenFailed ==
  \A k \in 1..Len(fileUploads) :
    fileUploads[k].status # "error" => fileUploads[k].error = "none"

isUploading == activeUploads # {}

hasUploading == CountStatus(fileUploads, "uploading") > 0

\* C35: a hash is in activeUploads exactly when the collection has a record
\* of that hash with status uploading, so isUploading and hasUploading are
\* equal.
C35_ActiveIffUploading ==
  /\ \A h \in Hashes :
       h \in activeUploads <=>
         (Has(fileUploads, h) /\ Get(fileUploads, h).status = "uploading")
  /\ isUploading = hasUploading

\* C36: a hash has at most one transfer in flight, the controller registered
\* under the hash is that transfer's (so removeFile aborts it), and the end
\* of a transfer leaves the controller and the slot of another transfer of
\* the same hash alone.
C36_OneTransferPerHash ==
  /\ [](\A h \in Hashes :
          /\ Cardinality(InFlight(h)) <= 1
          /\ \A t \in InFlight(h) : abortControllers[h] = t.id)
  /\ [][\A t \in transfers, o \in Outcomes :
          Settle(t, o) =>
            \A u \in InFlight(t.sha256) \ {t} :
              /\ abortControllers'[u.sha256] = abortControllers[u.sha256]
              /\ u.sha256 \in activeUploads => u.sha256 \in activeUploads']_vars
\* C37: a negotiation that was in flight when removeAll or removeFile ran (the
\* removal has dropped its File from fileRefs) creates no record when it
\* returns, and no pending record is without its File.
C37_RemovedStaysRemoved ==
  /\ [](\A k \in 1..Len(fileUploads) :
          fileUploads[k].status = "pending" => fileUploads[k].sha256 \in fileRefs)
  /\ [][\A h \in Hashes :
          (~Has(fileUploads, h) /\ Has(fileUploads', h)) => h \in fileRefs]_vars

\* the records that hold the preview URL u
Holders(u) == {k \in 1..Len(fileUploads) : fileUploads[k].preview = u}

\* C38: when no call and no transfer is in flight, every preview URL that was
\* created is held by exactly one record or has been revoked.
C38_NoPreviewLeak ==
  Settled =>
    \A u \in 1..Len(objectURLs) :
      objectURLs[u] > 0 \/ Cardinality(Holders(u)) = 1
\* C39: when addFiles finds that the hash of an input is in the collection,
\* the record of that hash keeps its url, status, progress and preview (only
\* duplicateAlert changes) and fileRefs keeps the File it held for the hash.
C39_DuplicateChangesAlertOnly ==
  [][\A i \in 1..Len(calls) :
       (/\ calls[i].kind = "add" /\ calls[i].todo # <<>>
        /\ HashResolve(i, TRUE)
        /\ NextHash(i) \in calls[i].snap
        /\ Has(fileUploads, NextHash(i)))
         => /\ Has(fileUploads', NextHash(i))
            /\ [Get(fileUploads', NextHash(i)) EXCEPT !.duplicateAlert = "true"]
                 = [Get(fileUploads, NextHash(i)) EXCEPT !.duplicateAlert = "true"]
            /\ refFiles'[NextHash(i)] = refFiles[NextHash(i)]]_vars

\* the sequence s has no element twice
NoRepeats(s) == \A j, k \in 1..Len(s) : s[j] = s[k] => j = k

\* C40: the step in which the negotiation of an addFiles call returns calls
\* onFilesChange at most once, and only if the call has created a record, with
\* one File for each record it has created and no other File; no other step
\* (of retryUpload, removeFile, removeAll or anything else) calls onFilesChange.
C40_FilesChangePerAdd ==
  [][/\ \A i \in 1..Len(calls), ok \in BOOLEAN :
          (NegotiateReturn(i, ok) /\ calls[i].kind = "add") =>
            LET created == IF ok THEN Range(calls[i].reqs) ELSE {}
                called == Invocations("onFilesChange")
            IN /\ Len(called) <= 1
               /\ Len(called) = 1 <=> created # {}
               /\ Len(called) = 1 =>
                    /\ NoRepeats(called[1].files)
                    /\ {calculateSHA256(called[1].files[k]) :
                          k \in 1..Len(called[1].files)} = created
     /\ (~ \E i \in 1..Len(calls), ok \in BOOLEAN :
             NegotiateReturn(i, ok) /\ calls[i].kind = "add")
          => Invocations("onFilesChange") = <<>>]_vars

====
